---------------------------- MODULE Spec2Model ----------------------------
(***************************************************************************)
(* Model of coriolis/osmorphing/osmount/windows.py (WindowsMountTools):    *)
(* the OS probe (check_os), the diskpart servicing pass                    *)
(* (_service_disks_with_status) and the mount/dismount orchestration       *)
(* (mount_os, dismount_os).                                                *)
(*                                                                         *)
(* Text is modelled as a sequence of tokens: a token is a word, a single   *)
(* whitespace run " " or the line ending EOL.  Remote output is rendered   *)
(* to text by the environment and parsed back by the code's own split /    *)
(* splitlines / regular-expression logic.                                  *)
(***************************************************************************)
EXTENDS Naturals, Sequences, FiniteSets

(***************************************************************************)
(* Bounds of the model.                                                    *)
(***************************************************************************)
\* number of disk lines the remote LIST DISK table may hold
MaxDisks == 3
\* attempts of utils.retry_on_error (its max_attempts default)
MaxAttempts == 3
\* number of filesystem roots the remote enumeration may report
MaxRoots == 3
\* number of disk numbers a Get-Disk query may report
MaxNums == 2
\* number of lines the Get-Partition query may report
MaxParts == 2

\* sleep_seconds passed to utils.retry_on_error by mount_os
SleepSeconds == 5

(***************************************************************************)
(* Text helpers.                                                           *)
(***************************************************************************)
\* self._conn.EOL, the line ending of the remote machine ("\r\n")
EOL == "\r\n"

\* Bounded sequences over S, of length 0..n.
SeqUpTo(S, n) == UNION {[1..k -> S] : k \in 0..n}

\* sep.join(pieces): the environment's rendering of lines into one text.
RECURSIVE Join(_)
Join(pieces) ==
    IF pieces = <<>> THEN <<>>
    ELSE IF Len(pieces) = 1 THEN pieces[1]
    ELSE pieces[1] \o <<EOL>> \o Join(Tail(pieces))

\* str.split(EOL): always at least one piece; "" splits into [""].
RECURSIVE SplitFrom(_, _, _, _)
SplitFrom(text, k, cur, acc) ==
    IF k > Len(text) THEN Append(acc, cur)
    ELSE IF text[k] = EOL THEN SplitFrom(text, k + 1, <<>>, Append(acc, cur))
    ELSE SplitFrom(text, k + 1, Append(cur, text[k]), acc)

Split(text) == SplitFrom(text, 1, <<>>, <<>>)

\* str.splitlines(): like split on line endings but "" gives [] and a
\* trailing line ending opens no further (empty) line.
Splitlines(text) ==
    LET p == Split(text)
    IN  IF p[Len(p)] = <<>> THEN SubSeq(p, 1, Len(p) - 1) ELSE p

(***************************************************************************)
(* Remote execution outcomes.                                              *)
(***************************************************************************)
\* exception.NotAuthorized is a kind of exception.CoriolisException
Errors == {"CoriolisException", "NotAuthorized"}
Outcomes == {"ok"} \cup Errors

\* isinstance(exc, cls) over the two exception classes the code names
IsInstance(exc, cls) ==
    \/ exc = cls
    \/ cls = "Exception"
    \/ exc \in {"NotAuthorized", "No filesystems found"}
          /\ cls = "CoriolisException"

NoResult == [kind |-> "none"]
Returned(v) == [kind |-> "returned", value |-> v]
Raised(e) == [kind |-> "raised", exc |-> e]

\* one remote call as recorded in the history of the current step
Cmd(c, a, r) == [cmd |-> c, arg |-> a, res |-> r]


(***************************************************************************)
(* State.                                                                  *)
(***************************************************************************)
VARIABLES
    pc,                   \* position of the running operation
    op,                   \* public operation in progress
    cmds,                 \* remote calls issued so far, with their outcome
    result,               \* what the operation returned or raised
    \* --- remote machine ---
    disks,                \* LIST DISK table: sequence of [id, status]
    \* --- _service_disks_with_status ---
    status,               \* argument: target status
    skip_on_error,        \* argument
    disk_ids_to_skip,     \* argument
    script_fmt,           \* argument: service_script_with_id_fmt
    servicable_disk_ids,  \* candidates of the pass
    idx,                  \* position of the for loop over the candidates
    disk_list,            \* the latest LIST DISK report
    line_idx,             \* position of the scan of the re-listing, 0 outside
    first_list,           \* history: the report the pass started from
    visited,              \* history: what happened at each candidate's turn
    \* --- mount_os / dismount_os ---
    steps,                \* history: the steps entered so far
    caller,               \* who runs the current per-disk loop
    disk_nums,            \* the disk numbers of the current per-disk loop
    num_idx,              \* position in disk_nums
    part_lines,           \* lines of the partition query
    part_idx,             \* position in part_lines
    rec_nums,             \* disk_nums of _set_volumes_drive_letter
    attempts,             \* failed attempts counted by retry_on_error
    slept,                \* seconds slept by retry_on_error
    fs_text,              \* history: latest output of the root enumeration
    markers,              \* remote machine: roots holding Windows\System32
    fs_roots,             \* local of mount_os
    system_drive,         \* local of mount_os
    root_idx,             \* position in the roots to test
    root_drive            \* argument of dismount_os

svcVars == <<status, skip_on_error, disk_ids_to_skip, script_fmt,
             servicable_disk_ids, idx, disk_list, line_idx, first_list,
             visited>>
diskLoopVars == <<caller, disk_nums, num_idx>>
partVars == <<part_lines, part_idx, rec_nums>>
rootVars == <<attempts, slept, fs_text, markers, fs_roots, system_drive, root_idx,
             root_drive>>
mntVars == <<steps, diskLoopVars, partVars, rootVars>>
vars == <<pc, op, cmds, result, disks, svcVars, mntVars>>

None == "None"

Init ==
    /\ pc = "idle"
    /\ op = "none"
    /\ cmds = <<>>
    /\ result = NoResult
    /\ disks = <<>>
    /\ status = None
    /\ skip_on_error = FALSE
    /\ disk_ids_to_skip = {}
    /\ script_fmt = <<>>
    /\ servicable_disk_ids = <<>>
    /\ idx = 0
    /\ disk_list = <<>>
    /\ line_idx = 0
    /\ first_list = <<>>
    /\ visited = <<>>
    /\ steps = <<>>
    /\ caller = None
    /\ disk_nums = <<>>
    /\ num_idx = 0
    /\ part_lines = <<>>
    /\ part_idx = 0
    /\ rec_nums = <<>>
    /\ attempts = 0
    /\ slept = 0
    /\ fs_text = <<>>
    /\ markers = {}
    /\ fs_roots = <<>>
    /\ system_drive = <<>>
    /\ root_idx = 0
    /\ root_drive = <<>>

(***************************************************************************)
(* check_os                                                                *)
(***************************************************************************)
\* variant: the handlers in the other order
CheckOsResult_CoriolisFirst(res) ==
    IF res = "ok" THEN Returned(TRUE)
    ELSE IF IsInstance(res, "CoriolisException") THEN Returned(FALSE)
    ELSE Raised(res)

\* The three exits of check_os for the outcome of its single query.
CheckOsResult(res) ==
    IF res = "ok" THEN Returned(TRUE)
    ELSE IF IsInstance(res, "NotAuthorized") THEN Raised(res)
    ELSE IF IsInstance(res, "CoriolisException") THEN Returned(FALSE)
    ELSE Raised(res)

check_os ==
    /\ pc = "idle"
    /\ \E res \in Outcomes :
          /\ cmds' = Append(cmds, Cmd("exec_ps_command",
                       <<"(get-ciminstance Win32_OperatingSystem).Caption">>,
                       res))
          /\ result' = CheckOsResult(res)
    /\ op' = "check_os"
    /\ pc' = "done"
    /\ UNCHANGED <<disks, svcVars, mntVars>>

(***************************************************************************)
(* diskpart.exe: the remote disk table and _run_diskpart_script            *)
(***************************************************************************)
Statuses == {"Foreign", "Online"}
DiskIds == {"0", "1", "2"}
Numerals == {"0", "1", "2", "3", "4", "5", "6", "7", "8", "9"}

\* index of a disk ID
DiskIndex(id) == CHOOSE n \in 0..9 : <<"0", "1", "2", "3", "4", "5", "6", "7",
                                        "8", "9">>[n + 1] = id

\* the tables the remote machine may hold when a pass starts: diskpart lists
\* the disks by increasing index; one disk listed twice is admitted
DiskTables ==
    {t \in SeqUpTo([id : DiskIds, status : Statuses], MaxDisks) :
        /\ \A i \in 1..(Len(t) - 1) :
              DiskIndex(t[i].id) <= DiskIndex(t[i + 1].id)
        /\ Cardinality({i \in 1..(Len(t) - 1) : t[i].id = t[i + 1].id}) <= 1}

\* diskpart's LIST DISK report of a table
DiskLine(d) == <<" ", "Disk", " ", d.id, " ", d.status, " ", "40 GB">>
ListDiskHeader ==
    << <<>>,
       <<" ", "Disk", " ", "###", " ", "Status", " ", "Size">>,
       <<" ", "--------", " ", "-------------", " ", "-------">> >>
ListDiskOutput(t) ==
    Join(ListDiskHeader \o [i \in 1..Len(t) |-> DiskLine(t[i])])

\* a diskpart script that succeeds may change the status of any listed disk
\* (a disk group changes as a whole); one that fails changes none
Effects(t) ==
    {[i \in 1..Len(t) |-> [id |-> t[i].id, status |-> s[i]]] :
        s \in [1..Len(t) -> Statuses]}

disk_list_script == <<"LIST DISK", EOL, "EXIT">>
set_rw_foreign_disk_script_fmt ==
    <<"SELECT DISK", " ", "%s", EOL, "ATTRIBUTES DISK CLEAR READONLY", EOL,
      "EXIT">>
import_disk_script_fmt == <<"SELECT DISK", " ", "%s", EOL, "IMPORT", EOL, "EXIT">>

\* fmt % x
Format(fmt, x) == [i \in 1..Len(fmt) |-> IF fmt[i] = "%s" THEN x ELSE fmt[i]]

\* _run_diskpart_script: the script is written to a temporary file and fed
\* to diskpart.exe; the run as a whole returns the report (res = "ok") or
\* raises the error of the remote call that failed
RunDiskpartScript(script, res) == <<Cmd("diskpart.exe /s", script, res)>>

(***************************************************************************)
(* _service_disks_with_status                                              *)
(***************************************************************************)
\* re.match(r"\s+Disk (%s)\s+%s\s+" % (idpat, st), line): group(1) or None
ReMatch(idpat, st, line) ==
    IF /\ Len(line) >= 7
       /\ line[1] = " " /\ line[2] = "Disk" /\ line[3] = " "
       /\ (IF idpat = "[0-9]+" THEN line[4] \in Numerals ELSE line[4] = idpat)
       /\ line[5] = " " /\ line[6] = st /\ line[7] = " "
    THEN line[4]
    ELSE None

\* variant: every listed disk is a candidate, whatever its status
ServicableDiskIds_AnyStatus(listing, st) ==
    LET lines == Split(listing)
        m == [i \in 1..Len(lines) |->
                 IF Len(lines[i]) >= 7
                 THEN ReMatch("[0-9]+", lines[i][6], lines[i]) ELSE None]
    IN  SelectSeq(m, LAMBDA x : x # None)

\* servicable_disk_ids of a listing
ServicableDiskIds(listing, st) ==
    LET lines == Split(listing)
        m == [i \in 1..Len(lines) |-> ReMatch("[0-9]+", st, lines[i])]
    IN  SelectSeq(m, LAMBDA x : x # None)

\* variant: the re-check looks for the status on any disk's line
StillMatches_AnyDisk(listing, disk_id, st) ==
    LET lines == Split(listing)
    IN  \E i \in 1..Len(lines) : ReMatch("[0-9]+", st, lines[i]) # None

\* the inner loop's test: some line of the re-listing matches this ID
StillMatches(listing, disk_id, st) ==
    LET lines == Split(listing)
    IN  \E i \in 1..Len(lines) : ReMatch(disk_id, st, lines[i]) # None

\* variant: the candidate is looked up in the listing already held
ListingForTurn_Stale(fresh, held) == held

\* disk_list = self._run_diskpart_script(disk_list_script) at a candidate's
\* turn: the report just taken replaces the one held
ListingForTurn(fresh, held) == fresh

\* the first line of the listing, from the given line on, that matches
\* the ID and the status; 0 if there is none
MatchFrom(listing, disk_id, st, from) ==
    LET lines == Split(listing)
        hits == {i \in from..Len(lines) : ReMatch(disk_id, st, lines[i]) # None}
    IN  IF from > Len(listing) THEN 0
        ELSE IF hits = {} THEN 0
        ELSE CHOOSE i \in hits : \A j \in hits : i <= j

\* variant: the scan goes on with the next line
ResumeAt_NoBreak(at, listing) == at + 1

\* the `break` after the service script: the scan of the listing is over
\* (a listing has no more lines than tokens)
ResumeAt(at, listing) == Len(listing) + 1

\* variant: the skip list is not consulted
InSkipList_Ignored(disk_id, skip) == FALSE

\* disk_id in disk_ids_to_skip
InSkipList(disk_id, skip) == disk_id \in skip

\* variant: the handler never re-raises
Absorbed_Always(exc, skip) == TRUE

\* the handler around the service script: absorbed or re-raised
Absorbed(exc, skip) == IsInstance(exc, "Exception") /\ skip

Visit(id, act) == [id |-> id, act |-> act]

\* entry of a pass with the given arguments, the remote table being t
EnterPass(who, t, st, fmt, soe, skip) ==
    /\ op' = who
    /\ disks' = t
    /\ status' = st
    /\ script_fmt' = fmt
    /\ skip_on_error' = soe
    /\ disk_ids_to_skip' = skip
    /\ pc' = "svc_list"
    /\ UNCHANGED <<cmds, result, servicable_disk_ids, idx, disk_list,
                   line_idx, first_list, visited, mntVars>>

\* a direct call with any skip_on_error and disk_ids_to_skip
ServiceDisksWithStatus ==
    /\ pc = "idle"
    /\ \E t \in DiskTables, soe \in BOOLEAN, skip \in SUBSET DiskIds :
          EnterPass("_service_disks_with_status", t, "Foreign",
                    import_disk_script_fmt, soe, skip)

_set_foreign_disks_rw_mode ==
    /\ pc = "idle"
    /\ \E t \in DiskTables :
          EnterPass("_set_foreign_disks_rw_mode", t, "Foreign",
                    set_rw_foreign_disk_script_fmt, FALSE, {})

_import_foreign_disks ==
    /\ pc = "idle"
    /\ \E t \in DiskTables :
          EnterPass("_import_foreign_disks", t, "Foreign",
                    import_disk_script_fmt, FALSE, {})

SvcListDisks ==
    /\ pc = "svc_list"
    /\ \E res \in Outcomes :
          /\ cmds' = cmds \o RunDiskpartScript(disk_list_script, res)
          /\ IF res = "ok"
             THEN /\ disk_list' = ListDiskOutput(disks)
                  /\ first_list' = disk_list'
                  /\ servicable_disk_ids' =
                         ServicableDiskIds(disk_list', status)
                  /\ idx' = 1
                  /\ pc' = "svc_loop"
                  /\ UNCHANGED result
             ELSE /\ result' = Raised(res)
                  /\ pc' = "done"
                  /\ UNCHANGED <<disk_list, first_list, servicable_disk_ids,
                                 idx>>
    /\ UNCHANGED <<op, disks, status, skip_on_error, disk_ids_to_skip,
                   script_fmt, line_idx, visited, mntVars>>

SvcSkipDisk ==
    /\ pc = "svc_loop"
    /\ idx <= Len(servicable_disk_ids)
    /\ InSkipList(servicable_disk_ids[idx], disk_ids_to_skip)
    /\ visited' = Append(visited, Visit(servicable_disk_ids[idx], "skipped"))
    /\ idx' = idx + 1
    /\ UNCHANGED <<pc, op, cmds, result, disks, status, skip_on_error,
                   disk_ids_to_skip, script_fmt, servicable_disk_ids,
                   disk_list, line_idx, first_list, mntVars>>

SvcRelist ==
    /\ pc = "svc_loop"
    /\ idx <= Len(servicable_disk_ids)
    /\ ~InSkipList(servicable_disk_ids[idx], disk_ids_to_skip)
    /\ LET disk_id == servicable_disk_ids[idx] IN
       \E res \in Outcomes :
          /\ cmds' = cmds \o RunDiskpartScript(disk_list_script, res)
          /\ IF res # "ok"
             THEN /\ result' = Raised(res)
                  /\ pc' = "done"
                  /\ visited' = Append(visited, Visit(disk_id, "relist_error"))
                  /\ UNCHANGED <<disk_list, line_idx, idx>>
             ELSE /\ disk_list' = ListingForTurn(ListDiskOutput(disks),
                                                 disk_list)
                  /\ UNCHANGED result
                  /\ IF StillMatches(disk_list', disk_id, status)
                     THEN /\ pc' = "svc_operate"
                          /\ line_idx' = MatchFrom(disk_list', disk_id,
                                                   status, 1)
                          /\ UNCHANGED <<idx, visited>>
                     ELSE /\ visited' = Append(visited, Visit(disk_id, "stale"))
                          /\ idx' = idx + 1
                          /\ UNCHANGED <<pc, line_idx>>
    /\ UNCHANGED <<op, disks, status, skip_on_error, disk_ids_to_skip,
                   script_fmt, servicable_disk_ids, first_list, mntVars>>

SvcOperate ==
    /\ pc = "svc_operate"
    /\ LET disk_id == servicable_disk_ids[idx]
           script == Format(script_fmt, disk_id) IN
       \E res \in Outcomes :
          /\ cmds' = cmds \o RunDiskpartScript(script, res)
          /\ visited' = Append(visited,
                 Visit(disk_id, IF res = "ok" THEN "operated" ELSE "failed"))
          /\ IF res = "ok"
             THEN disks' \in Effects(disks)
             ELSE disks' = disks
          /\ IF res = "ok" \/ Absorbed(res, skip_on_error)
             THEN LET more == MatchFrom(disk_list, disk_id, status,
                                        ResumeAt(line_idx, disk_list))
                  IN  /\ line_idx' = more
                      /\ idx' = IF more = 0 THEN idx + 1 ELSE idx
                      /\ pc' = IF more = 0 THEN "svc_loop" ELSE "svc_operate"
                      /\ UNCHANGED result
             ELSE /\ result' = Raised(res)
                  /\ pc' = "done"
                  /\ UNCHANGED <<idx, line_idx>>
    /\ UNCHANGED <<op, status, skip_on_error, disk_ids_to_skip, script_fmt,
                   servicable_disk_ids, disk_list, first_list, mntVars>>

SvcReturn ==
    /\ pc = "svc_loop"
    /\ idx > Len(servicable_disk_ids)
    /\ result' = Returned(None)
    /\ pc' = "done"
    /\ UNCHANGED <<op, cmds, disks, svcVars, mntVars>>

(***************************************************************************)
(* mount_os steps 1 and 2: _bring_disks_online, _set_basic_disks_rw_mode   *)
(***************************************************************************)
DiskNums == {"0", "1"}

\* what a (Get-Disk | Where-Object ...).Number query may print: one disk
\* number per line
NumberOutputs ==
    {Join([n \in 1..Len(l) |-> <<l[n]>>]) : l \in SeqUpTo(DiskNums, MaxNums)}

get_offline_disks == <<"(Get-Disk | Where-Object { $_.IsOffline -eq $True }).Number">>
get_readonly_disks == <<"(Get-Disk | Where-Object { $_.IsReadOnly -eq $True }).Number">>
get_nonboot_disks == <<"(Get-Disk | Where-Object { $_.IsBoot -eq $False }).Number">>

set_disk_online(disk_num) == <<"Set-Disk -IsOffline $False", " ">> \o disk_num
set_disk_rw(disk_num) == <<"Set-Disk -IsReadOnly $False", " ">> \o disk_num
set_disk_offline(disk_num) == <<"Set-Disk -IsOffline $True", " ">> \o disk_num

\* variant: the per-disk command is not guarded
BestEffort_Unguarded(exc) == FALSE

\* variant: the handler passes over authorization failures only
BestEffort_AuthOnly(exc) == exc = "NotAuthorized"

\* variant: the handler passes over all but authorization failures
BestEffort_ButAuth(exc) == exc = "CoriolisException"

\* the handler around a per-disk Set-Disk: logged and passed over
BestEffort(exc) == IsInstance(exc, "CoriolisException")

\* mount_os or dismount_os enters a step
EnterStep(name) ==
    steps' = IF steps # <<>> /\ steps[Len(steps)] = name
             THEN steps ELSE Append(steps, name)

\* variant: `if not disk_nums`
QueriesDisks_IfFalsy(given, nums) == ~given \/ nums = <<>>

\* `if disk_nums is None` of the per-disk functions: the disks are queried
\* only when the caller passed no list
QueriesDisks(given, nums) == ~given

\* a per-disk loop leaves its function: the locals are gone
LeaveDiskLoop ==
    /\ caller' = None
    /\ disk_nums' = <<>>
    /\ num_idx' = 0

mount_os ==
    /\ pc = "idle"
    /\ op' = "mount_os"
    /\ pc' = "online_query"
    /\ caller' = "mount_os"
    /\ UNCHANGED <<cmds, result, disks, svcVars, steps, disk_nums, num_idx,
                   partVars, rootVars>>

\* _bring_disks_online(disk_nums=None): the query for the offline disks
BringDisksOnlineQuery ==
    /\ pc = "online_query"
    /\ EnterStep("online")
    /\ \E res \in Outcomes :
          /\ cmds' = <<Cmd("exec_ps_command", get_offline_disks, res)>>
          /\ IF res = "ok"
             THEN /\ \E out \in NumberOutputs : disk_nums' = Splitlines(out)
                  /\ num_idx' = 1
                  /\ pc' = "online_loop"
                  /\ UNCHANGED result
             ELSE /\ result' = Raised(res)
                  /\ pc' = "done"
                  /\ UNCHANGED <<disk_nums, num_idx>>
    /\ UNCHANGED <<op, disks, svcVars, caller, partVars, rootVars>>

\* one turn of the loop of _bring_disks_online
BringDiskOnline ==
    /\ pc = "online_loop"
    /\ num_idx <= Len(disk_nums)
    /\ \E res \in Outcomes :
          /\ cmds' = Append(cmds, Cmd("exec_ps_command",
                                      set_disk_online(disk_nums[num_idx]), res))
          /\ IF res = "ok" \/ BestEffort(res)
             THEN /\ num_idx' = num_idx + 1
                  /\ UNCHANGED <<pc, result>>
             ELSE /\ result' = Raised(res)
                  /\ pc' = "done"
                  /\ UNCHANGED num_idx
    /\ UNCHANGED <<op, disks, svcVars, steps, caller, disk_nums, partVars,
                   rootVars>>

\* variant: mount_os goes from step 1 straight to step 3
AfterBringDisksOnline_SkipRw(who) ==
    IF who = "mount_os" THEN "part_query" ELSE "fs_call"

\* where the run continues when _bring_disks_online returns: line 222 of
\* mount_os, or line 224 through _rebring_disks_online and
\* _set_volumes_drive_letter
AfterBringDisksOnline(who) ==
    IF who = "mount_os" THEN "rw_query" ELSE "fs_call"

\* _bring_disks_online returns: to mount_os (step 2 is next) or to
\* _rebring_disks_online, which returns to _set_volumes_drive_letter and
\* that to mount_os (step 4 is next)
BringDisksOnlineReturn ==
    /\ pc = "online_loop"
    /\ num_idx > Len(disk_nums)
    /\ pc' = AfterBringDisksOnline(caller)
    /\ UNCHANGED <<op, cmds, result, disks, svcVars, steps, diskLoopVars,
                   partVars, rootVars>>

\* _set_basic_disks_rw_mode: the query for the read-only disks
SetBasicDisksRwQuery ==
    /\ pc = "rw_query"
    /\ EnterStep("rw")
    /\ \E res \in Outcomes :
          /\ cmds' = <<Cmd("exec_ps_command", get_readonly_disks, res)>>
          /\ IF res = "ok"
             THEN /\ \E out \in NumberOutputs : disk_nums' = Splitlines(out)
                  /\ num_idx' = 1
                  /\ pc' = "rw_loop"
                  /\ UNCHANGED result
             ELSE /\ result' = Raised(res)
                  /\ pc' = "done"
                  /\ UNCHANGED <<disk_nums, num_idx>>
    /\ UNCHANGED <<op, disks, svcVars, caller, partVars, rootVars>>

\* one turn of the loop of _set_basic_disks_rw_mode
SetBasicDiskRw ==
    /\ pc = "rw_loop"
    /\ num_idx <= Len(disk_nums)
    /\ \E res \in Outcomes :
          /\ cmds' = Append(cmds, Cmd("exec_ps_command",
                                      set_disk_rw(disk_nums[num_idx]), res))
          /\ IF res = "ok" \/ BestEffort(res)
             THEN /\ num_idx' = num_idx + 1
                  /\ UNCHANGED <<pc, result>>
             ELSE /\ result' = Raised(res)
                  /\ pc' = "done"
                  /\ UNCHANGED num_idx
    /\ UNCHANGED <<op, disks, svcVars, steps, caller, disk_nums, partVars,
                   rootVars>>

SetBasicDisksRwReturn ==
    /\ pc = "rw_loop"
    /\ num_idx > Len(disk_nums)
    /\ pc' = "part_query"
    /\ UNCHANGED <<op, cmds, result, disks, svcVars, steps, diskLoopVars,
                   partVars, rootVars>>

(***************************************************************************)
(* mount_os step 3: _set_volumes_drive_letter and _rebring_disks_online;   *)
(* dismount_os                                                             *)
(***************************************************************************)
\* lines the partition query may print
PartitionLines ==
    {<<"DiskNumber", " ", "PartitionNumber">>, <<"1">>}
        \cup {<<" ", d, " ", "1">> : d \in DiskNums}
PartitionOutputs == {Join(l) : l \in SeqUpTo(PartitionLines, MaxParts)}

get_partitions ==
    <<"Get-Partition | Where-Object { $_.Type -eq \"Basic\" -and $_.NoDefaultDriveLetter -eq $True } | Select-Object -Property DiskNumber,PartitionNumber">>
set_partition(disk_num, part_num) ==
    <<"Set-Partition -NoDefaultDriveLetter $False -DiskNumber", " ", disk_num,
      " ", "-PartitionNumber", " ", part_num>>

\* str.split(): the words of a line
WsSplit(line) == SelectSeq(line, LAMBDA t : t # " ")

\* str.isnumeric()
IsNumeric(tok) == tok \in Numerals

\* the two `continue` tests of the partition loop
SkipsPartitionLine(part) ==
    LET part_line == WsSplit(part)
    IN  IF ~(Len(part_line) > 1) THEN TRUE
        ELSE ~IsNumeric(part_line[1]) \/ ~IsNumeric(part_line[2])

SetVolumesDriveLetterQuery ==
    /\ pc = "part_query"
    /\ EnterStep("letters")
    /\ \E res \in Outcomes :
          /\ cmds' = <<Cmd("exec_ps_command", get_partitions, res)>>
          /\ IF res # "ok"
             THEN /\ result' = Raised(res)
                  /\ pc' = "done"
                  /\ UNCHANGED partVars
             ELSE \E partitions \in PartitionOutputs :
                  /\ UNCHANGED result
                  /\ IF partitions # <<>>
                     THEN /\ part_lines' = Splitlines(partitions)
                          /\ part_idx' = 1
                          /\ rec_nums' = <<>>
                          /\ pc' = "part_loop"
                     ELSE /\ pc' = "fs_call"
                          /\ UNCHANGED partVars
    /\ disk_nums' = <<>>
    /\ num_idx' = 0
    /\ UNCHANGED <<op, disks, svcVars, caller, rootVars>>

SkipPartitionLine ==
    /\ pc = "part_loop"
    /\ part_idx <= Len(part_lines)
    /\ SkipsPartitionLine(part_lines[part_idx])
    /\ part_idx' = part_idx + 1
    /\ UNCHANGED <<pc, op, cmds, result, disks, svcVars, steps, diskLoopVars,
                   part_lines, rec_nums, rootVars>>

\* variant: Set-Partition guarded like the per-disk commands
PartitionBestEffort_Guarded(exc) == IsInstance(exc, "CoriolisException")

\* Set-Partition is issued outside any try block: no failure is passed over
PartitionBestEffort(exc) == FALSE

SetPartition ==
    /\ pc = "part_loop"
    /\ part_idx <= Len(part_lines)
    /\ ~SkipsPartitionLine(part_lines[part_idx])
    /\ LET part_line == WsSplit(part_lines[part_idx])
           disk_num == part_line[1]
           part_num == part_line[2] IN
       \E res \in Outcomes :
          /\ cmds' = Append(cmds, Cmd("exec_ps_command",
                                      set_partition(disk_num, part_num), res))
          /\ IF res = "ok"
             THEN /\ rec_nums' = Append(rec_nums, <<disk_num>>)
                  /\ part_idx' = part_idx + 1
                  /\ UNCHANGED <<pc, result>>
             ELSE IF PartitionBestEffort(res)
             THEN /\ part_idx' = part_idx + 1
                  /\ UNCHANGED <<pc, result, rec_nums>>
             ELSE /\ result' = Raised(res)
                  /\ pc' = "done"
                  /\ UNCHANGED <<rec_nums, part_idx>>
    /\ UNCHANGED <<op, disks, svcVars, steps, diskLoopVars, part_lines,
                   rootVars>>

\* _rebring_disks_online(disk_nums=disk_nums), entered after the loop
RebringDisksOnline ==
    /\ pc = "part_loop"
    /\ part_idx > Len(part_lines)
    /\ caller' = "_rebring_disks_online"
    /\ disk_nums' = rec_nums
    /\ num_idx' = 1
    /\ pc' = IF QueriesDisks(TRUE, rec_nums)
             THEN "offline_query" ELSE "offline_loop"
    /\ UNCHANGED <<op, cmds, result, disks, svcVars, steps, partVars, rootVars>>

dismount_os ==
    /\ pc = "idle"
    /\ \E r \in {<<"D", ":", "\\">>, <<"E", ":", "\\">>, <<>>} :
          root_drive' = r
    /\ op' = "dismount_os"
    /\ pc' = "offline_query"
    /\ caller' = "dismount_os"
    /\ UNCHANGED <<cmds, result, disks, svcVars, steps, disk_nums, num_idx,
                   partVars, attempts, slept, fs_text, markers, fs_roots,
                   system_drive, root_idx>>

\* _bring_nonboot_disks_offline(disk_nums=None): the query
BringNonbootDisksOfflineQuery ==
    /\ pc = "offline_query"
    /\ EnterStep("offline")
    /\ \E res \in Outcomes :
          /\ cmds' = <<Cmd("exec_ps_command", get_nonboot_disks, res)>>
          /\ IF res = "ok"
             THEN /\ \E out \in NumberOutputs : disk_nums' = Splitlines(out)
                  /\ num_idx' = 1
                  /\ pc' = "offline_loop"
                  /\ UNCHANGED result
             ELSE /\ result' = Raised(res)
                  /\ pc' = "done"
                  /\ UNCHANGED <<disk_nums, num_idx>>
    /\ UNCHANGED <<op, disks, svcVars, caller, partVars, rootVars>>

\* one turn of the loop of _bring_nonboot_disks_offline
BringDiskOffline ==
    /\ pc = "offline_loop"
    /\ num_idx <= Len(disk_nums)
    /\ \E res \in Outcomes :
          /\ cmds' = Append(cmds, Cmd("exec_ps_command",
                                      set_disk_offline(disk_nums[num_idx]), res))
          /\ IF res = "ok" \/ BestEffort(res)
             THEN /\ num_idx' = num_idx + 1
                  /\ UNCHANGED <<pc, result>>
             ELSE /\ result' = Raised(res)
                  /\ pc' = "done"
                  /\ UNCHANGED num_idx
    /\ UNCHANGED <<op, disks, svcVars, steps, caller, disk_nums, partVars,
                   rootVars>>

\* _bring_nonboot_disks_offline returns: to _rebring_disks_online, which
\* goes on to bring the same disks online, or to dismount_os, which returns
BringNonbootDisksOfflineReturn ==
    /\ pc = "offline_loop"
    /\ num_idx > Len(disk_nums)
    /\ IF caller = "_rebring_disks_online"
       THEN /\ num_idx' = 1
            /\ disk_nums' = rec_nums
            /\ pc' = IF QueriesDisks(TRUE, rec_nums)
                     THEN "online_query" ELSE "online_loop"
            /\ UNCHANGED <<caller, result>>
       ELSE /\ result' = Returned(None)
            /\ pc' = "done"
            /\ UNCHANGED diskLoopVars
    /\ UNCHANGED <<op, cmds, disks, svcVars, steps, partVars, rootVars>>

(***************************************************************************)
(* mount_os steps 4 to 6: filesystem roots, system drive, OS marker        *)
(***************************************************************************)
RootLetters == {"C", "D", "E", "F"}
RootOf(l) == <<l, ":", "\\">>

\* what (get-psdrive -PSProvider FileSystem).Root may print
FsRootOutputs ==
    {Join(l) : l \in SeqUpTo({RootOf(x) : x \in RootLetters}, MaxRoots)}

\* what $env:SystemDrive may print
SystemDrives == {<<l, ":">> : l \in RootLetters}

get_fs_roots == <<"(get-psdrive -PSProvider FileSystem).Root">>
get_system_drive == <<"$env:SystemDrive">>

\* the error _get_fs_roots raises by itself, if any
GetFsRootsError(drives, fail_if_empty) ==
    IF Len(drives) = 0 /\ fail_if_empty THEN "No filesystems found" ELSE None

\* utils.retry_on_error: the errors it retries
Retried(exc) == ~IsInstance(exc, "NotAuthorized")

\* the remote path test of the environment
PathExists(path) == SubSeq(path, 1, Len(path) - 1) \in markers

\* "%sWindows\\System32" % fs_root
os_marker_path(fs_root) == fs_root \o <<"Windows\\System32">>

\* variant: every enumerated root is tested
NonSystemRoots_Unfiltered(roots, sysdrive) == roots

\* variant: the roots are tested last to first
NonSystemRoots_Reversed(roots, sysdrive) ==
    LET f == SelectSeq(roots,
                 LAMBDA r : ~(SubSeq(r, 1, Len(r) - 1) = sysdrive))
    IN  [n \in 1..Len(f) |-> f[Len(f) + 1 - n]]

\* [r for r in fs_roots if not r[:-1] == system_drive]
NonSystemRoots(roots, sysdrive) ==
    SelectSeq(roots, LAMBDA r : ~(SubSeq(r, 1, Len(r) - 1) = sysdrive))

\* variant: the miss is returned, not raised
NotFound_Returned == Returned(<<None, None>>)

\* raise exception.OperatingSystemNotFound("root partition not found")
NotFound == Raised("OperatingSystemNotFound")

\* mount_os enters utils.retry_on_error(sleep_seconds=5)(self._get_fs_roots)
RetryGetFsRoots ==
    /\ pc = "fs_call"
    /\ EnterStep("fs_roots")
    /\ cmds' = <<>>
    /\ attempts' = 0
    /\ slept' = 0
    /\ pc' = "fs_roots"
    /\ LeaveDiskLoop
    /\ part_lines' = <<>>
    /\ part_idx' = 0
    /\ rec_nums' = <<>>
    /\ UNCHANGED <<op, result, disks, svcVars, fs_text, markers, fs_roots,
                   system_drive, root_idx, root_drive>>

\* one attempt of retry_on_error(sleep_seconds=5)(self._get_fs_roots)(
\* fail_if_empty=True)
GetFsRoots ==
    /\ pc = "fs_roots"
    /\ EnterStep("fs_roots")
    /\ \E res \in Outcomes :
       \E out \in (IF res = "ok" THEN FsRootOutputs ELSE {<<>>}) :
          LET drives == Split(out)
              exc == IF res # "ok" THEN res ELSE GetFsRootsError(drives, TRUE)
          IN  /\ cmds' = Append(cmds,
                                 Cmd("exec_ps_command", get_fs_roots, res))
              /\ IF res = "ok"
                 THEN /\ fs_text' = out
                      /\ \E mk \in SUBSET {drives[n] : n \in 1..Len(drives)} :
                            markers' = mk
                 ELSE UNCHANGED <<fs_text, markers>>
              /\ IF exc = None
                 THEN /\ fs_roots' = drives
                      /\ pc' = "sysdrive"
                      /\ UNCHANGED <<attempts, slept, result>>
                 ELSE /\ attempts' = attempts + 1
                      /\ UNCHANGED fs_roots
                      /\ IF Retried(exc) /\ attempts + 1 < MaxAttempts
                         THEN /\ slept' = slept + SleepSeconds
                              /\ UNCHANGED <<pc, result>>
                         ELSE /\ result' = Raised(exc)
                              /\ pc' = "done"
                              /\ UNCHANGED slept
    /\ UNCHANGED <<op, disks, svcVars, diskLoopVars, partVars, system_drive,
                   root_idx, root_drive>>

\* system_drive = self._get_system_drive()
GetSystemDrive ==
    /\ pc = "sysdrive"
    /\ EnterStep("sysdrive")
    /\ \E res \in Outcomes :
          /\ cmds' = <<Cmd("exec_ps_command", get_system_drive, res)>>
          /\ IF res = "ok"
             THEN /\ \E sd \in SystemDrives : system_drive' = sd
                  /\ root_idx' = 1
                  /\ pc' = "probe"
                  /\ UNCHANGED result
             ELSE /\ result' = Raised(res)
                  /\ pc' = "done"
                  /\ UNCHANGED <<system_drive, root_idx>>
    /\ UNCHANGED <<op, disks, svcVars, diskLoopVars, partVars, attempts, slept,
                   fs_text, markers, fs_roots, root_drive>>

\* one turn of the loop over the roots: the marker test
TestPath ==
    /\ pc = "probe"
    /\ root_idx <= Len(NonSystemRoots(fs_roots, system_drive))
    /\ EnterStep("probe")
    /\ LET fs_root == NonSystemRoots(fs_roots, system_drive)[root_idx]
           path == os_marker_path(fs_root) IN
       \E res \in Outcomes :
          /\ cmds' = Append(cmds, Cmd("test_path", path, res))
          /\ IF res # "ok"
             THEN /\ result' = Raised(res)
                  /\ pc' = "done"
                  /\ UNCHANGED root_idx
             ELSE IF PathExists(path)
             THEN /\ result' = Returned(<<fs_root, None>>)
                  /\ pc' = "done"
                  /\ UNCHANGED root_idx
             ELSE /\ root_idx' = root_idx + 1
                  /\ UNCHANGED <<pc, result>>
    /\ UNCHANGED <<op, disks, svcVars, diskLoopVars, partVars, attempts, slept,
                   fs_text, markers, fs_roots, system_drive, root_drive>>

\* the loop ends without a hit
RaiseNotFound ==
    /\ pc = "probe"
    /\ root_idx > Len(NonSystemRoots(fs_roots, system_drive))
    /\ EnterStep("probe")
    /\ result' = NotFound
    /\ pc' = "done"
    /\ UNCHANGED <<op, cmds, disks, svcVars, diskLoopVars, partVars, rootVars>>

(***************************************************************************)
(* Observations on the history, used by the properties below.              *)
(***************************************************************************)
\* a pass of _service_disks_with_status is running or has ended
InPass ==
    op \in {"_service_disks_with_status", "_set_foreign_disks_rw_mode",
            "_import_foreign_disks"}

\* the remote call ran a service script (any diskpart script but LIST DISK)
IsServiceRun(c) == c.cmd = "diskpart.exe /s" /\ c.arg # disk_list_script
IsListRun(c) == c.cmd = "diskpart.exe /s" /\ c.arg = disk_list_script

\* the disk a service script selects
ScriptDiskId(script) == script[3]

\* the disk IDs the service script was run for, in order
ServiceRunIds ==
    LET runs == SelectSeq(cmds, IsServiceRun)
    IN  [i \in 1..Len(runs) |-> ScriptDiskId(runs[i].arg)]

\* a report shows the disk with the status: the tokens of its table line
\* occur in the text
Shows(text, id, st) ==
    \E k \in 1..(Len(text) - 6) :
        /\ text[k + 1] = "Disk"
        /\ text[k + 3] = id
        /\ text[k + 5] = st
        /\ text[k] = " " /\ text[k + 2] = " " /\ text[k + 4] = " "
        /\ text[k + 6] = " "

\* the turns at which the service script was run
Acted(v) == v.act \in {"operated", "failed"}
ActedIds ==
    LET a == SelectSeq(visited, Acted)
    IN  [i \in 1..Len(a) |-> a[i].id]

LastVisit == visited[Len(visited)]

(***************************************************************************)
(* C1: a pass never runs the service script for a disk ID that is in       *)
(* disk_ids_to_skip, whatever status the listings report for it.           *)
(***************************************************************************)
C1_SkippedNeverServiced ==
    InPass =>
        \A i \in 1..Len(cmds) :
            IsServiceRun(cmds[i]) =>
                ScriptDiskId(cmds[i].arg) \notin disk_ids_to_skip

\* a finished pass that serviced some disk and passed over a skip-listed disk
\* shown as Foreign by the first report, by the latest report and still so
C1_Witness ==
    /\ InPass /\ pc = "done" /\ result.kind = "returned"
    /\ Len(ServiceRunIds) >= 1
    /\ \E id \in disk_ids_to_skip :
          /\ Shows(first_list, id, status)
          /\ Shows(disk_list, id, status)
          /\ Shows(ListDiskOutput(disks), id, status)
          /\ \E i \in 1..Len(visited) : visited[i] = Visit(id, "skipped")

(***************************************************************************)
(* C2: a candidate whose line no longer matches the target status when its *)
(* turn comes gets no service script, raises no error, and the pass goes   *)
(* on with the next candidate.  For [0:Foreign, 1:Foreign, 2:Online] where *)
(* the operation on disk 0 turns disk 1 Online, exactly one operation is   *)
(* issued, on disk 0.                                                      *)
(***************************************************************************)
ScenarioTable ==
    << [id |-> "0", status |-> "Foreign"],
       [id |-> "1", status |-> "Foreign"],
       [id |-> "2", status |-> "Online"] >>

ScenarioListing == ListDiskOutput(ScenarioTable)

C2_StaleCandidateSkipped ==
    InPass =>
        \* the service script ran exactly at the turns recorded as acted
        /\ ServiceRunIds = ActedIds
        /\ (visited # <<>> /\ pc \in {"svc_loop", "done"}) =>
              \* a turn is acted on exactly when the re-listing showed the disk
              /\ LastVisit.act = "stale" =>
                    ~Shows(disk_list, LastVisit.id, status)
              /\ Acted(LastVisit) => Shows(disk_list, LastVisit.id, status)
        \* after a stale turn the pass is at the next candidate, no error
        /\ (visited # <<>> /\ LastVisit.act = "stale") =>
              /\ result.kind # "raised"
              /\ idx = Len(visited) + 1
        /\ ( /\ pc = "done" /\ result.kind = "returned"
             /\ disk_ids_to_skip = {}
             /\ first_list = ScenarioListing
             /\ Shows(disk_list, "1", "Online") )
           => ServiceRunIds = <<"0">>

C2_Witness ==
    /\ InPass /\ pc = "done" /\ result.kind = "returned"
    /\ first_list = ScenarioListing
    /\ disk_ids_to_skip = {}
    /\ visited = <<Visit("0", "operated"), Visit("1", "stale")>>
    /\ Shows(disk_list, "1", "Online")

(***************************************************************************)
(* C3: when the service script fails for a candidate, skip_on_error=False  *)
(* propagates the failure and nothing more is listed or operated on;       *)
(* skip_on_error=True absorbs it and every later candidate still gets its  *)
(* turn, however many operations fail.                                     *)
(***************************************************************************)
C3_SkipOnErrorPolicy ==
    InPass =>
        /\ ~skip_on_error =>
              \A i \in 1..Len(visited) :
                  visited[i].act = "failed" =>
                      /\ i = Len(visited)
                      /\ pc = "done"
                      /\ IsServiceRun(cmds[Len(cmds)])
                      /\ result = Raised(cmds[Len(cmds)].res)
        /\ skip_on_error =>
              \* only a listing can end the pass with an error
              /\ result.kind = "raised" =>
                    /\ IsListRun(cmds[Len(cmds)])
                    /\ result = Raised(cmds[Len(cmds)].res)
              \* a pass that returns gave every candidate its turn
              /\ (pc = "done" /\ result.kind = "returned") =>
                    /\ Len(visited) = Len(servicable_disk_ids)
                    /\ \A i \in 1..Len(visited) :
                          /\ visited[i].id = servicable_disk_ids[i]
                          /\ visited[i].act = "skipped" <=>
                                 visited[i].id \in disk_ids_to_skip

\* two operations failed and a later candidate was still operated on
C3_Witness ==
    /\ InPass /\ pc = "done" /\ result.kind = "returned"
    /\ skip_on_error
    /\ Len(visited) = 3
    /\ visited[1].act = "failed" /\ visited[2].act = "failed"
    /\ visited[3].act = "operated"

(***************************************************************************)
(* Observations on a mount_os run.                                         *)
(***************************************************************************)
Args(log) == [n \in 1..Len(log) |-> log[n].arg]
LastStep == IF steps = <<>> THEN None ELSE steps[Len(steps)]
AllOk(log) == \A n \in 1..Len(log) : log[n].res = "ok"

\* the commands a per-disk loop has issued after n turns over nums
LoopArgs(query, Set(_), nums, n) ==
    <<query>> \o [x \in 1..n |-> Set(nums[x])]

\* the root of the reported system drive
SystemRoot == system_drive \o <<"\\">>

\* the marker paths tested so far
Tested ==
    LET t == SelectSeq(cmds, LAMBDA c : c.cmd = "test_path")
    IN  [n \in 1..Len(t) |-> t[n].arg]

\* the marker paths of the roots other than the system root among the
\* first n enumerated roots, in enumeration order
PathsUpTo(n) ==
    LET r == SelectSeq(SubSeq(fs_roots, 1, n), LAMBDA x : x # SystemRoot)
    IN  [m \in 1..Len(r) |-> r[m] \o <<"Windows\\System32">>]

\* the n-th enumerated root is not the system root and holds the marker
IsHit(n) == fs_roots[n] # SystemRoot /\ fs_roots[n] \in markers

(***************************************************************************)
(* C4: in the bring-online and clear-read-only steps of mount_os a Set-Disk*)
(* failure for one disk does not raise; a Set-Disk command is issued for   *)
(* every listed disk in listing order and mount_os goes on to the next     *)
(* step.                                                                   *)
(***************************************************************************)
C4_BestEffortDiskSteps ==
    (op = "mount_os" /\ LastStep \in {"online", "rw"}) =>
        \* only the query of the step can end mount_os
        /\ result.kind = "raised" => Len(cmds) = 1
        /\ (pc = "online_loop") =>
              Args(cmds) = LoopArgs(get_offline_disks, set_disk_online,
                                    disk_nums, num_idx - 1)
        /\ (pc = "rw_query" /\ LastStep = "online") =>
              /\ Args(cmds) = LoopArgs(get_offline_disks, set_disk_online,
                                       disk_nums, Len(disk_nums))
              /\ result = NoResult
        /\ (pc = "rw_loop") =>
              Args(cmds) = LoopArgs(get_readonly_disks, set_disk_rw,
                                    disk_nums, num_idx - 1)
        /\ (pc = "part_query") =>
              /\ Args(cmds) = LoopArgs(get_readonly_disks, set_disk_rw,
                                       disk_nums, Len(disk_nums))
              /\ result = NoResult

\* the read-only step is over: Set-Disk failed for the first of two disks and
\* was still issued, with success, for the second
C4_Witness ==
    /\ op = "mount_os" /\ pc = "part_query" /\ steps = <<"online", "rw">>
    /\ Len(disk_nums) = 2
    /\ Len(cmds) = 3
    /\ cmds[2].res = "CoriolisException"
    /\ cmds[3].res = "ok"

(***************************************************************************)
(* C5: if the root enumeration returns no roots (empty output), mount_os   *)
(* fails with the empty-result error; it does not go on to query the system*)
(* drive, test a root, return a root or fail with OperatingSystemNotFound. *)
(***************************************************************************)
C5_EmptyRootsFail ==
    (op = "mount_os" /\ fs_text = <<>>) =>
        /\ pc \notin {"sysdrive", "probe"}
        /\ LastStep \notin {"sysdrive", "probe"}
        /\ (pc = "done" /\ LastStep = "fs_roots" /\ AllOk(cmds)) =>
              result = Raised("No filesystems found")

(***************************************************************************)
(* C6: root discovery runs the enumeration exactly MaxAttempts times, with *)
(* one sleep of SleepSeconds between consecutive attempts, when every      *)
(* attempt yields an empty result, and only then raises the empty-result   *)
(* error; a non-empty result is returned at once.                          *)
(***************************************************************************)
C6_RetryThenEmptyResultError ==
    op = "mount_os" =>
        \* discovery hands a result to mount_os only if it is non-empty, and
        \* then it is the result of the latest enumeration, nothing following
        /\ pc = "sysdrive" =>
              /\ fs_text # <<>>
              /\ cmds[Len(cmds)] = Cmd("exec_ps_command", get_fs_roots, "ok")
        \* empty results alone end in the error after MaxAttempts attempts
        /\ (LastStep = "fs_roots" /\ AllOk(cmds) /\ cmds # <<>>
              /\ fs_text = <<>>) =>
              /\ Len(cmds) <= MaxAttempts
              /\ slept = SleepSeconds * (Len(cmds) - 1)
              /\ pc = "done" =>
                    /\ Len(cmds) = MaxAttempts
                    /\ result = Raised("No filesystems found")

(***************************************************************************)
(* C7: the root mount_os returns is never the root of the reported system  *)
(* drive, even when that root holds the OS marker; the marker test is not  *)
(* even issued for it.                                                     *)
(***************************************************************************)
C7_SystemRootNeverChosen ==
    (op = "mount_os" /\ LastStep = "probe") =>
        /\ result.kind = "returned" => result.value[1] # SystemRoot
        /\ \A n \in 1..Len(Tested) :
              Tested[n] # SystemRoot \o <<"Windows\\System32">>

\* mount_os has ended; the system root was enumerated and holds the marker
C7_Witness ==
    /\ op = "mount_os" /\ pc = "done" /\ LastStep = "probe"
    /\ \E n \in 1..Len(fs_roots) : fs_roots[n] = SystemRoot
    /\ SystemRoot \in markers
    /\ result.kind = "returned"

(***************************************************************************)
(* C8: when a root other than the system root holds the OS marker,         *)
(* mount_os returns (r, None) for the first such root r in enumeration     *)
(* order; the roots after r are never tested.                              *)
(***************************************************************************)
C8_FirstMarkedRootReturned ==
    (op = "mount_os" /\ LastStep = "probe") =>
        /\ result.kind = "returned" =>
              \E n \in 1..Len(fs_roots) :
                  /\ IsHit(n)
                  /\ \A m \in 1..(n - 1) : ~IsHit(m)
                  /\ result.value = <<fs_roots[n], None>>
                  /\ Tested = PathsUpTo(n)
        /\ (pc = "done" /\ AllOk(cmds)
              /\ \E n \in 1..Len(fs_roots) : IsHit(n)) =>
              result.kind = "returned"

\* the second tested root is returned while a later root holds the marker too
C8_Witness ==
    /\ op = "mount_os" /\ pc = "done" /\ result.kind = "returned"
    /\ Len(Tested) = 2
    /\ \E n \in 1..Len(fs_roots) :
          /\ IsHit(n)
          /\ fs_roots[n] # result.value[1]

(***************************************************************************)
(* C9: if no root other than the system root holds the OS marker, mount_os *)
(* fails with OperatingSystemNotFound after testing each such root once,   *)
(* in order, without enumerating or testing again.                         *)
(***************************************************************************)
C9_NotFoundAfterOnePass ==
    (op = "mount_os" /\ LastStep = "probe") =>
        /\ result = Raised("OperatingSystemNotFound") =>
              /\ \A n \in 1..Len(fs_roots) : ~IsHit(n)
              /\ Args(cmds) = <<get_system_drive>> \o PathsUpTo(Len(fs_roots))
              /\ AllOk(cmds)
        /\ (pc = "done" /\ AllOk(cmds)
              /\ \A n \in 1..Len(fs_roots) : ~IsHit(n)) =>
              result = Raised("OperatingSystemNotFound")

\* two roots were tested in vain; the system root alone holds the marker
C9_Witness ==
    /\ op = "mount_os" /\ pc = "done"
    /\ result = Raised("OperatingSystemNotFound")
    /\ Len(Tested) = 2
    /\ SystemRoot \in markers

(***************************************************************************)
(* C10: check_os issues a single query and has three outcomes: True when   *)
(* the query succeeds, the error re-raised when it fails with              *)
(* NotAuthorized, False when it fails with another CoriolisException.      *)
(***************************************************************************)
C10_CheckOsOutcomes ==
    op = "check_os" =>
        /\ pc = "done"
        /\ Len(cmds) = 1
        /\ cmds[1].res = "ok" => result = Returned(TRUE)
        /\ cmds[1].res = "NotAuthorized" => result = Raised("NotAuthorized")
        /\ cmds[1].res = "CoriolisException" => result = Returned(FALSE)
        /\ cmds[1].res \in {"ok", "NotAuthorized", "CoriolisException"}

C10_Witness ==
    /\ op = "check_os"
    /\ cmds[1].res = "NotAuthorized"
    /\ result = Raised("NotAuthorized")

(***************************************************************************)
(* C11: a NotAuthorized failure of any remote command issued by mount_os,  *)
(* dismount_os or a disk-servicing pass is propagated to the caller: the   *)
(* command is the last one issued and the operation ends raising           *)
(* NotAuthorized; it is not swallowed, absorbed or retried.                *)
(***************************************************************************)
C11_NotAuthorizedPropagates ==
    \A n \in 1..Len(cmds) :
        cmds[n].res = "NotAuthorized" =>
            /\ n = Len(cmds)
            /\ pc = "done"
            /\ result = Raised("NotAuthorized")

(***************************************************************************)
(* C12: mount_os goes through its steps in the fixed order bring-online,   *)
(* clear-read-only, drive letters, root enumeration, system-drive query,   *)
(* marker tests: the commands issued in a step are that step's own, no     *)
(* step is repeated or skipped on the way to success, and the run ends     *)
(* with a returned root or with a failure.                                 *)
(***************************************************************************)
StepOrder == <<"online", "rw", "letters", "fs_roots", "sysdrive", "probe">>

\* the command belongs to the step
OfStep(step, c) ==
    LET verb == c.arg[1] IN
    CASE step = "online" ->
            verb \in {get_offline_disks[1], "Set-Disk -IsOffline $False"}
      [] step = "rw" ->
            verb \in {get_readonly_disks[1], "Set-Disk -IsReadOnly $False"}
      [] step = "letters" ->
            verb \in {get_partitions[1],
                      "Set-Partition -NoDefaultDriveLetter $False -DiskNumber",
                      "Set-Disk -IsOffline $True", "Set-Disk -IsOffline $False"}
      [] step = "fs_roots" -> c.arg = get_fs_roots
      [] step = "sysdrive" -> c.arg = get_system_drive
      [] step = "probe" -> c.arg = get_system_drive \/ c.cmd = "test_path"
      [] OTHER -> FALSE

\* the query that opens the step
IsStepQuery(c) ==
    c.arg \in {get_offline_disks, get_readonly_disks, get_partitions,
               get_system_drive}

C12_FixedStepOrder ==
    op = "mount_os" =>
        /\ Len(steps) <= Len(StepOrder)
        /\ steps = SubSeq(StepOrder, 1, Len(steps))
        /\ \A n \in 1..Len(cmds) :
              /\ OfStep(LastStep, cmds[n])
              /\ IsStepQuery(cmds[n]) => n = 1
        /\ pc # "done" => result = NoResult
        /\ pc = "done" => result.kind \in {"returned", "raised"}
        /\ result.kind = "returned" =>
              /\ steps = StepOrder
              /\ \E n \in 1..Len(fs_roots) : result.value = <<fs_roots[n], None>>

\* a run that went through the six steps and returned a root
C12_Witness ==
    /\ op = "mount_os" /\ pc = "done" /\ result.kind = "returned"
    /\ steps = StepOrder
    /\ Len(cmds) >= 2

(***************************************************************************)
(* Observations on the drive-letter step.                                  *)
(***************************************************************************)
IsSetPartition(c) ==
    c.arg[1] = "Set-Partition -NoDefaultDriveLetter $False -DiskNumber"
IsSetDisk(c) ==
    c.arg[1] \in {"Set-Disk -IsOffline $True", "Set-Disk -IsOffline $False",
                  "Set-Disk -IsReadOnly $False"}

\* the disks of the partitions cleared so far, in order
Recorded ==
    LET done == SelectSeq(cmds, LAMBDA c : IsSetPartition(c) /\ c.res = "ok")
    IN  [n \in 1..Len(done) |-> done[n].arg[3]]

\* the Set-Disk commands issued so far
SetDiskArgs == Args(SelectSeq(cmds, IsSetDisk))

\* the offline/online cycle of the recorded disks
CycleArgs(rec) ==
    [n \in 1..Len(rec) |-> <<"Set-Disk -IsOffline $True", " ", rec[n]>>]
        \o [n \in 1..Len(rec) |-> <<"Set-Disk -IsOffline $False", " ", rec[n]>>]

\* the line of the partition query names a disk and a partition
NamesPartition(line) ==
    LET w == SelectSeq(line, LAMBDA t : t # " ")
    IN  IF Len(w) < 2 THEN FALSE
        ELSE w[1] \in Numerals /\ w[2] \in Numerals

InLettersStep == op = "mount_os" /\ LastStep = "letters"

(***************************************************************************)
(* C13: in the drive-letter step, when the partition query returns nothing *)
(* or only lines that do not name a disk and a partition, no Set-Partition *)
(* and no Set-Disk is issued, and the disks are never queried for a        *)
(* fallback cycle; when partitions were cleared, the recorded disks, and   *)
(* only those, are all set offline before any is set back online.          *)
(***************************************************************************)
C13_DriveLetterCycle ==
    op = "mount_os" =>
        \* no fallback to all offline or all non-boot disks
        /\ \A n \in 1..Len(cmds) :
              /\ cmds[n].arg # get_nonboot_disks
              /\ cmds[n].arg = get_offline_disks => LastStep = "online"
        /\ (InLettersStep /\ pc # "done") =>
              \* nothing to clear: the query is the only command
              /\ (\A n \in 1..Len(part_lines) : ~NamesPartition(part_lines[n]))
                    => Len(cmds) = 1
              \* the cycle so far is the beginning of offline-all, online-all
              /\ Len(SetDiskArgs) <= 2 * Len(Recorded)
              /\ SetDiskArgs = SubSeq(CycleArgs(Recorded), 1, Len(SetDiskArgs))
              /\ SetDiskArgs # <<>> => part_idx > Len(part_lines)
              \* the step is left with the cycle complete
              /\ pc = "fs_call" => SetDiskArgs = CycleArgs(Recorded)

\* the step is over: two partitions on two disks were cleared and the two
\* disks cycled
C13_Witness ==
    /\ InLettersStep /\ pc = "fs_call"
    /\ Len(Recorded) = 2 /\ Recorded[1] # Recorded[2]
    /\ Len(SetDiskArgs) = 4

(***************************************************************************)
(* C14: in the offline/online cycle of the drive-letter step a failure of  *)
(* Set-Disk for one recorded disk does not abort mount_os: the remaining   *)
(* recorded disks are still set offline, all recorded disks are still set  *)
(* online, and mount_os goes on to root discovery.                         *)
(***************************************************************************)
C14_CycleBestEffort ==
    InLettersStep =>
        LET off(n) == [x \in 1..n |-> set_disk_offline(rec_nums[x])]
            on(n) == [x \in 1..n |-> set_disk_online(rec_nums[x])]
            all == Len(rec_nums)
        IN  \* a Set-Disk command never ends the run
            /\ result.kind = "raised" => ~IsSetDisk(cmds[Len(cmds)])
            /\ pc \in {"offline_loop", "online_loop"} => disk_nums = rec_nums
            /\ pc = "offline_loop" => SetDiskArgs = off(num_idx - 1)
            /\ pc = "online_loop" =>
                  SetDiskArgs = off(all) \o on(num_idx - 1)
            /\ pc = "fs_call" =>
                  /\ SetDiskArgs = off(all) \o on(all)
                  /\ result = NoResult

\* the step is over: of two recorded disks the first failed to go offline
\* and to come back online, the second was still cycled
C14_Witness ==
    /\ InLettersStep /\ pc = "fs_call"
    /\ Len(rec_nums) = 2
    /\ LET sd == SelectSeq(cmds, IsSetDisk)
       IN  /\ Len(sd) = 4
           /\ sd[1].res = "CoriolisException" /\ sd[2].res = "ok"
           /\ sd[3].res = "CoriolisException" /\ sd[4].res = "ok"

(***************************************************************************)
(* C15: dismount_os queries the non-boot disks once and issues a           *)
(* set-offline command for every disk number returned, in order; a failure *)
(* for one disk neither raises nor stops the loop; the commands do not     *)
(* depend on the root argument.                                            *)
(***************************************************************************)
C15_DismountOffline ==
    op = "dismount_os" =>
        /\ \A n \in 1..Len(cmds) :
              (cmds[n].arg = get_nonboot_disks) <=> (n = 1)
        \* only the query can end dismount_os with an error
        /\ result.kind = "raised" =>
              /\ Len(cmds) = 1
              /\ result = Raised(cmds[1].res)
        /\ pc = "offline_loop" =>
              Args(cmds) = LoopArgs(get_nonboot_disks, set_disk_offline,
                                    disk_nums, num_idx - 1)
        \* whatever the root, a run whose query succeeded ends with one
        \* command per disk
        /\ (pc = "done" /\ cmds[1].res = "ok") =>
              /\ result = Returned(None)
              /\ Args(cmds) = LoopArgs(get_nonboot_disks, set_disk_offline,
                                       disk_nums, Len(disk_nums))

\* dismount_os of a root has returned: the first of two disks failed to go
\* offline, the second was still attempted
C15_Witness ==
    /\ op = "dismount_os" /\ pc = "done" /\ result = Returned(None)
    /\ root_drive # <<>>
    /\ Len(disk_nums) = 2
    /\ Len(cmds) = 3
    /\ cmds[2].res = "CoriolisException"
    /\ cmds[3].res = "ok"

(***************************************************************************)
(* Observations on the listings of a pass.                                 *)
(***************************************************************************)
\* the places of a report where a disk line with the status begins
ShownAt(text, st) ==
    SelectSeq([k \in 1..Len(text) |-> k],
              LAMBDA k : /\ k + 6 <= Len(text)
                         /\ text[k + 1] = "Disk"
                         /\ text[k + 3] \in Numerals
                         /\ text[k + 5] = st
                         /\ text[k] = " " /\ text[k + 2] = " "
                         /\ text[k + 4] = " " /\ text[k + 6] = " ")

\* the disk IDs a report shows with the status, in the order of the report
ShownIds(text, st) ==
    LET at == ShownAt(text, st)
    IN  [n \in 1..Len(at) |-> text[at[n] + 3]]

VisitedIds == [n \in 1..Len(visited) |-> visited[n].id]

(***************************************************************************)
(* C16: the candidates of a pass are fixed by the first listing: a disk    *)
(* that did not show the target status in the first listing is never       *)
(* operated on in the pass, even if it takes the status later; the         *)
(* candidates are visited in the order of the first listing.               *)
(***************************************************************************)
C16_CandidatesFixedByFirstListing ==
    InPass =>
        LET first == ShownIds(first_list, status)
        IN  /\ Len(visited) <= Len(first)
            /\ VisitedIds = SubSeq(first, 1, Len(visited))
            /\ \A n \in 1..Len(ServiceRunIds) :
                  Shows(first_list, ServiceRunIds[n], status)
            /\ (pc = "done" /\ result.kind = "returned") =>
                  VisitedIds = first

\* a pass that returned after two operations: some disk did not show the
\* status at first, showed it in the last re-listing and was left alone
C16_Witness ==
    /\ InPass /\ pc = "done" /\ result.kind = "returned"
    /\ Len(ServiceRunIds) >= 2
    /\ \E d \in DiskIds :
          /\ ~Shows(first_list, d, status)
          /\ Shows(disk_list, d, status)
          /\ \A n \in 1..Len(ServiceRunIds) : ServiceRunIds[n] # d

(***************************************************************************)
(* C17: every run of the service script for a disk ID comes right after a  *)
(* LIST DISK run whose report, taken after every earlier operation of the  *)
(* pass, shows that ID with the target status.                             *)
(***************************************************************************)
\* the report renders the table: it shows exactly the table's disks
Renders(text, t) ==
    \A d \in DiskIds, st \in Statuses :
        Shows(text, d, st) <=>
            \E n \in 1..Len(t) : t[n] = [id |-> d, status |-> st]

C17_FreshListingBeforeOperation ==
    InPass =>
        /\ \A n \in 1..Len(cmds) :
              IsServiceRun(cmds[n]) =>
                  /\ n > 1
                  /\ IsListRun(cmds[n - 1])
                  /\ cmds[n - 1].res = "ok"
        \* about to operate: the report held is the one just taken
        /\ pc = "svc_operate" =>
              /\ IsListRun(cmds[Len(cmds)])
              /\ Renders(disk_list, disks)
              /\ Shows(disk_list, servicable_disk_ids[idx], status)

\* about to operate for the second time, the table having changed since the
\* pass began
C17_Witness ==
    /\ InPass /\ pc = "svc_operate"
    /\ Len(ServiceRunIds) = 1
    /\ disk_list # first_list

(***************************************************************************)
(* C18: a skip-listed candidate is passed over before any re-listing: a    *)
(* pass that raises no error runs LIST DISK exactly                        *)
(* 1 + (number of candidates not in disk_ids_to_skip) times, and a skipped *)
(* candidate costs no remote command.                                      *)
(***************************************************************************)
ListRuns == Len(SelectSeq(cmds, IsListRun))
NotSkipListed(ids) == SelectSeq(ids, LAMBDA d : d \notin disk_ids_to_skip)

C18_ListRunsCount ==
    InPass =>
        /\ (pc = "done" /\ result.kind = "returned") =>
              ListRuns = 1 + Len(NotSkipListed(ShownIds(first_list, status)))
        \* every command is accounted for by the first listing, the turns
        \* that were not skips and their service runs
        /\ cmds # <<>> =>
              Len(cmds) = 1
                  + Len(SelectSeq(visited, LAMBDA v : v.act # "skipped"))
                  + Len(ServiceRunIds)
                  + (IF pc = "svc_operate" THEN 1 ELSE 0)

\* a pass that returned, having skipped two candidates and re-listed for a
\* third
C18_Witness ==
    /\ InPass /\ pc = "done" /\ result.kind = "returned"
    /\ Len(SelectSeq(visited, LAMBDA v : v.act = "skipped")) = 2
    /\ ListRuns = 2
    /\ Len(cmds) = 3

(***************************************************************************)
(* C19: in one pass the service script is run at most once per candidate,  *)
(* even when a re-listing has more than one line matching its ID and the   *)
(* status, whether the operation succeeds or fails under skip_on_error;    *)
(* the operations of a pass never outnumber the candidates of the first    *)
(* listing.                                                                *)
(***************************************************************************)
Count(ids, d) == Len(SelectSeq(ids, LAMBDA x : x = d))

C20_SetPartitionFailurePropagates ==
    InLettersStep =>
        \A n \in 1..Len(cmds) :
            (IsSetPartition(cmds[n]) /\ cmds[n].res # "ok") =>
                /\ n = Len(cmds)
                /\ pc = "done"
                /\ result = Raised(cmds[n].res)
                /\ SetDiskArgs = <<>>
                /\ part_idx <= Len(part_lines)

\* the first partition was cleared, Set-Partition failed for the second
C20_Witness ==
    /\ InLettersStep /\ pc = "done"
    /\ Len(Recorded) = 1
    /\ Len(cmds) = 3
    /\ IsSetPartition(cmds[3])
    /\ cmds[3].res = "CoriolisException"
    /\ result = Raised("CoriolisException")

(***************************************************************************)
(* The operations start from the idle tool object and do not call one      *)
(* another: the disk-servicing passes on one side, check_os, mount_os and  *)
(* dismount_os on the other.                                               *)
(***************************************************************************)
ServiceNext ==
    \/ ServiceDisksWithStatus
    \/ _set_foreign_disks_rw_mode
    \/ _import_foreign_disks
    \/ SvcListDisks
    \/ SvcSkipDisk
    \/ SvcRelist
    \/ SvcOperate
    \/ SvcReturn

MountNext ==
    \/ check_os
    \/ mount_os
    \/ BringDisksOnlineQuery
    \/ BringDiskOnline
    \/ BringDisksOnlineReturn
    \/ SetBasicDisksRwQuery
    \/ SetBasicDiskRw
    \/ SetBasicDisksRwReturn
    \/ SetVolumesDriveLetterQuery
    \/ SkipPartitionLine
    \/ SetPartition
    \/ RebringDisksOnline
    \/ BringDiskOffline
    \/ BringNonbootDisksOfflineReturn
    \/ RetryGetFsRoots
    \/ GetFsRoots
    \/ GetSystemDrive
    \/ TestPath
    \/ RaiseNotFound
    \/ dismount_os
    \/ BringNonbootDisksOfflineQuery

Next == ServiceNext \/ MountNext

Spec == Init /\ [][Next]_vars

\* the runs of the disk-servicing passes alone
ServiceSpec == Init /\ [][ServiceNext]_vars

\* the runs of check_os, mount_os and dismount_os alone
MountSpec == Init /\ [][MountNext]_vars

=============================================================================
